---- MODULE Spec2Model ----
(***************************************************************************)
(* Model of the sun-protection front end: the skin-type questionnaire      *)
(* (App.js / SkinTypeQuestionnaire.js) and the weather / UV display        *)
(* (App.js / WeatherDisplay.js), the reminder (App.js / ReminderSystem.js)  *)
(* and the SearchLocation variant (Components/searchLocation.js).  The     *)
(* components share no state; each has its own specification over its own  *)
(* variables.                                                              *)
(*                                                                         *)
(* JavaScript numbers that can be fractional or NaN (the UV value) are     *)
(* records [nan, t] with t the value in tenths; questionnaire answers are  *)
(* optional integers: <<>> is null and <<v>> is the number v.              *)
(***************************************************************************)
EXTENDS Integers, Sequences, FiniteSets, TLC

VARIABLES
    answers,              \* useState(Array(10).fill(null)), slots 1..10
    currentQuestion,      \* useState(0)
    allQuestionsAnswered, \* useState(false)
    determinedSkinType,   \* useState("")
    totalScore,           \* useState(0)
    lastOp,               \* the questionnaire handler that ran last
    weatherData,          \* useState(null)
    error,                \* useState("")
    loading,              \* useState(false)
    calls,                \* the fetchWeatherData calls started so far
    uvValue,              \* uvData.value of the response weatherData was built from
    selectedTime,         \* useState("")
    showPopup,            \* useState(false)
    sound,                \* notificationSound: its playback state and currentTime
    notifications,        \* reminders triggered and not yet dismissed
    lastOpR,              \* the reminder handler or audio event that ran last
    slUvIndex,            \* SearchLocation: useState(null)
    slWeatherData,        \* SearchLocation: useState(null)
    slError,              \* SearchLocation: useState("")
    slCalls,              \* SearchLocation: the fetchWeatherData calls started so far
    location,             \* WeatherDisplay: useState(""), a sequence of characters
    suggestions,          \* WeatherDisplay: useState([])
    showSuggestions,      \* WeatherDisplay: useState(false)
    sugCalls              \* the fetchLocationSuggestions calls started so far

qvars == <<answers, currentQuestion, allQuestionsAnswered, determinedSkinType,
           totalScore, lastOp>>
wvars == <<weatherData, error, loading, calls, uvValue>>
rvars == <<selectedTime, showPopup, sound, notifications, lastOpR>>
svars == <<slUvIndex, slWeatherData, slError, slCalls>>
lvars == <<location, suggestions, showSuggestions, sugCalls>>
vars == <<answers, currentQuestion, allQuestionsAnswered, determinedSkinType,
          totalScore, lastOp, weatherData, error, loading, calls, uvValue,
          selectedTime, showPopup, sound, notifications, lastOpR,
          slUvIndex, slWeatherData, slError, slCalls,
          location, suggestions, showSuggestions, sugCalls>>

(***************************************************************************)
(* Bounds of the model.                                                    *)
(***************************************************************************)
\* number of questions whose five options are all tried; the remaining
\* questions are answered with the first or the last option only
FullSlots == 1
\* largest provider UV value, in tenths
MaxUvTenths == 124
\* the smallest provider UV value is -MinUvTenths tenths
MinUvTenths == 12
\* number of fetchWeatherData calls started in one run
MaxCalls == 2
\* handleAnswer called directly: arguments from -BelowRange .. 4 + AboveRange
BelowRange == 1
AboveRange == 1
\* largest currentTime of the looping notification sound before it wraps to 0
MaxSoundTime == 7
\* number of searches started in one run of the SearchLocation variant
MaxSearches == 2
\* number of fetchLocationSuggestions requests sent in one run
MaxRequests == 2
\* largest number of places in one suggestion response (the request has limit=5)
MaxSuggestions == 2

(***************************************************************************)
(* Program constants.                                                      *)
(***************************************************************************)
NumQuestions == 10
NumOptions == 5

(***************************************************************************)
(* Questionnaire                                                           *)
(***************************************************************************)
null == <<>>
Some(v) == <<v>>
Slots == 1..NumQuestions

emptyAnswers == [i \in Slots |-> null]

\* newAnswers.every((a) => a !== null)
every(a) == \A i \in Slots : a[i] # null

\* newAnswers.reduce((acc, curr) => acc + curr, 0)
RECURSIVE reduceFrom(_, _)
reduceFrom(a, n) == IF n = 0 THEN 0 ELSE reduceFrom(a, n - 1) + a[n][1]
reduce(a) == reduceFrom(a, NumQuestions)

\* mutant of skinTypeFor: the first boundary one too low
skinTypeFor_lowBoundary(score) ==
    IF score <= 5 THEN "type1"
    ELSE IF score <= 13 THEN "type2"
    ELSE IF score <= 20 THEN "type3"
    ELSE IF score <= 27 THEN "type4"
    ELSE IF score <= 34 THEN "type5"
    ELSE "type6"

\* the if / else-if chain of handleAnswer over score
skinTypeFor(score) ==
    IF score <= 6 THEN "type1"
    ELSE IF score <= 13 THEN "type2"
    ELSE IF score <= 20 THEN "type3"
    ELSE IF score <= 27 THEN "type4"
    ELSE IF score <= 34 THEN "type5"
    ELSE "type6"

\* mutant of optionIndexes: a sixth option button
optionIndexes_sixth == 0..NumOptions

\* the option buttons rendered for a question: onClick={() => handleAnswer(index)}
optionIndexes == 0..(NumOptions - 1)

\* the options the user of this model clicks on question q (0-based)
Clicked(q) == IF q < FullSlots THEN optionIndexes ELSE {0, NumOptions - 1}

\* arguments of a call of handleAnswer that is not made through a button
DirectArgs(q) ==
    Clicked(q) \cup
        (IF q < FullSlots THEN (0 - BelowRange)..(NumOptions - 1 + AboveRange) ELSE {})

\* mutant of handleAnswer: the every() test dropped; null counts as 0 in the sum
handleAnswer_scoresPartial(answer) ==
    LET newAnswers == [answers EXCEPT ![currentQuestion + 1] = Some(answer)]
        zeroed == [i \in Slots |-> IF newAnswers[i] = null THEN Some(0) ELSE newAnswers[i]]
    IN
    /\ answers' = newAnswers
    /\ totalScore' = reduce(zeroed)
    /\ determinedSkinType' = skinTypeFor(reduce(zeroed))
    /\ lastOp' = "handleAnswer"
    /\ UNCHANGED <<currentQuestion, allQuestionsAnswered>>
    /\ UNCHANGED <<wvars, rvars, svars, lvars>>

\* mutant of handleAnswer: the questionnaire moves on to the next question by itself
handleAnswer_autoAdvance(answer) ==
    LET newAnswers == [answers EXCEPT ![currentQuestion + 1] = Some(answer)] IN
    /\ answers' = newAnswers
    /\ IF every(newAnswers)
       THEN /\ totalScore' = reduce(newAnswers)
            /\ determinedSkinType' = skinTypeFor(reduce(newAnswers))
       ELSE UNCHANGED <<totalScore, determinedSkinType>>
    /\ currentQuestion' =
           (IF currentQuestion < NumQuestions - 1 THEN currentQuestion + 1 ELSE currentQuestion)
    /\ lastOp' = "handleAnswer"
    /\ UNCHANGED allQuestionsAnswered
    /\ UNCHANGED <<wvars, rvars, svars, lvars>>

\* mutant of handleAnswer: the score kept as a running total of the answers given
handleAnswer_accumulates(answer) ==
    LET newAnswers == [answers EXCEPT ![currentQuestion + 1] = Some(answer)] IN
    /\ answers' = newAnswers
    /\ IF every(newAnswers)
       THEN /\ totalScore' = totalScore + answer
            /\ determinedSkinType' = skinTypeFor(totalScore + answer)
       ELSE /\ totalScore' = totalScore + answer
            /\ UNCHANGED determinedSkinType
    /\ lastOp' = "handleAnswer"
    /\ UNCHANGED <<currentQuestion, allQuestionsAnswered>>
    /\ UNCHANGED <<wvars, rvars, svars, lvars>>

handleAnswer(answer) ==
    LET newAnswers == [answers EXCEPT ![currentQuestion + 1] = Some(answer)] IN
    /\ answers' = newAnswers
    /\ IF every(newAnswers)
       THEN /\ totalScore' = reduce(newAnswers)
            /\ determinedSkinType' = skinTypeFor(reduce(newAnswers))
       ELSE UNCHANGED <<totalScore, determinedSkinType>>
    /\ lastOp' = "handleAnswer"
    /\ UNCHANGED <<currentQuestion, allQuestionsAnswered>>
    /\ UNCHANGED <<wvars, rvars, svars, lvars>>

\* mutant of handleNextQuestion: <= in place of <
handleNextQuestion_noClamp ==
    /\ IF currentQuestion <= NumQuestions - 1
       THEN currentQuestion' = currentQuestion + 1
       ELSE UNCHANGED currentQuestion
    /\ lastOp' = "handleNextQuestion"
    /\ UNCHANGED <<answers, allQuestionsAnswered, determinedSkinType, totalScore>>
    /\ UNCHANGED <<wvars, rvars, svars, lvars>>

handleNextQuestion ==
    /\ IF currentQuestion < NumQuestions - 1
       THEN currentQuestion' = currentQuestion + 1
       ELSE UNCHANGED currentQuestion
    /\ lastOp' = "handleNextQuestion"
    /\ UNCHANGED <<answers, allQuestionsAnswered, determinedSkinType, totalScore>>
    /\ UNCHANGED <<wvars, rvars, svars, lvars>>

handlePrevQuestion ==
    /\ IF currentQuestion > 0
       THEN currentQuestion' = currentQuestion - 1
       ELSE UNCHANGED currentQuestion
    /\ lastOp' = "handlePrevQuestion"
    /\ UNCHANGED <<answers, allQuestionsAnswered, determinedSkinType, totalScore>>
    /\ UNCHANGED <<wvars, rvars, svars, lvars>>

\* mutant of showResult: the button rendered unconditionally
showResult_noGuard ==
    /\ allQuestionsAnswered' = TRUE
    /\ lastOp' = "showResult"
    /\ UNCHANGED <<answers, currentQuestion, determinedSkinType, totalScore>>
    /\ UNCHANGED <<wvars, rvars, svars, lvars>>

\* the Show Result button: rendered only when answers.every((a) => a !== null)
showResult ==
    /\ every(answers)
    /\ allQuestionsAnswered' = TRUE
    /\ lastOp' = "showResult"
    /\ UNCHANGED <<answers, currentQuestion, determinedSkinType, totalScore>>
    /\ UNCHANGED <<wvars, rvars, svars, lvars>>

\* mutant of handleReset: setDeterminedSkinType("") and setTotalScore(0) left out
handleReset_keepsType ==
    /\ answers' = emptyAnswers
    /\ currentQuestion' = 0
    /\ allQuestionsAnswered' = FALSE
    /\ lastOp' = "handleReset"
    /\ UNCHANGED <<determinedSkinType, totalScore>>
    /\ UNCHANGED <<wvars, rvars, svars, lvars>>

\* mutant of handleReset: setCurrentQuestion(0) left out
handleReset_keepsQuestion ==
    /\ answers' = emptyAnswers
    /\ allQuestionsAnswered' = FALSE
    /\ determinedSkinType' = ""
    /\ totalScore' = 0
    /\ lastOp' = "handleReset"
    /\ UNCHANGED currentQuestion
    /\ UNCHANGED <<wvars, rvars, svars, lvars>>

handleReset ==
    /\ answers' = emptyAnswers
    /\ currentQuestion' = 0
    /\ allQuestionsAnswered' = FALSE
    /\ determinedSkinType' = ""
    /\ totalScore' = 0
    /\ lastOp' = "handleReset"
    /\ UNCHANGED <<wvars, rvars, svars, lvars>>

\* the results section: {allQuestionsAnswered && ( ... )}
resultShown == allQuestionsAnswered

\* mutant of reapplyAdvice: type3 put in the first band
reapplyAdvice_wrongBand(skinType) ==
    IF skinType = "type1" \/ skinType = "type2" \/ skinType = "type3"
    THEN "Easy burner! Reapply every 1-2 hours."
    ELSE IF skinType = "type4"
    THEN "Stay sun-safe! Reapply every 2-3 hours."
    ELSE "Better protected, but still reapply every 2-3 hours!"

\* the reapply advice of the results section (its text without the emoji)
reapplyAdvice(skinType) ==
    IF skinType = "type1" \/ skinType = "type2"
    THEN "Easy burner! Reapply every 1-2 hours."
    ELSE IF skinType = "type3" \/ skinType = "type4"
    THEN "Stay sun-safe! Reapply every 2-3 hours."
    ELSE "Better protected, but still reapply every 2-3 hours!"

InitQ ==
    /\ answers = emptyAnswers
    /\ currentQuestion = 0
    /\ allQuestionsAnswered = FALSE
    /\ determinedSkinType = ""
    /\ totalScore = 0
    /\ lastOp = "mount"

(***************************************************************************)
(* JavaScript numbers: NaN, or the number t / 10                           *)
(***************************************************************************)
NaN == [nan |-> TRUE, t |-> 0]
Tenths(t) == [nan |-> FALSE, t |-> t]
Whole(n) == Tenths(n * 10)

\* x <= n, x >= n, x > n for an integer literal n; every comparison with NaN is false
LE(x, n) == ~x.nan /\ x.t <= n * 10
GE(x, n) == ~x.nan /\ x.t >= n * 10
GT(x, n) == ~x.nan /\ x.t > n * 10

\* uvData.value as the provider sends it: a number, or absent
undefined == [kind |-> "undefined", t |-> 0]
jsonNumber(t) == [kind |-> "number", t |-> t]
UvValues == {undefined} \cup {jsonNumber(t) : t \in (0 - MinUvTenths)..MaxUvTenths}

\* Number(v): a number is itself, undefined is NaN
Number(v) == IF v.kind = "number" THEN Tenths(v.t) ELSE NaN

\* Math.round(x): the nearest integer, halves towards +Infinity; NaN stays NaN
MathRound(x) == IF x.nan THEN NaN ELSE Tenths(((x.t + 5) \div 10) * 10)

(***************************************************************************)
(* UV classification and protective measures                               *)
(***************************************************************************)
\* mutant of getUVMessage: < in place of <= in the first test
getUVMessage_lowBoundary(uvIndex) ==
    IF ~uvIndex.nan /\ uvIndex.t < 20
    THEN [message |-> "Low", color |-> "green",
          protection |-> "Have fun outside!"]
    ELSE IF GE(uvIndex, 3) /\ LE(uvIndex, 5)
    THEN [message |-> "Moderate", color |-> "yellow",
          protection |-> "SPF is your BFF, cover up and use sunscreen!"]
    ELSE IF GE(uvIndex, 6) /\ LE(uvIndex, 7)
    THEN [message |-> "High", color |-> "orange",
          protection |-> "Sunburns are so last season, protect yourself and reduce your sun-time!"]
    ELSE IF GE(uvIndex, 8) /\ LE(uvIndex, 10)
    THEN [message |-> "Very High", color |-> "red",
          protection |-> "Avoid the Lobster Look, use sunscreen every 2 hours and minimise sun exposure!"]
    ELSE [message |-> "Extreme", color |-> "purple",
          protection |-> "UV off the Charts! You should be off the sun!"]

\* App.js
getUVMessage(uvIndex) ==
    IF LE(uvIndex, 2)
    THEN [message |-> "Low", color |-> "green",
          protection |-> "Have fun outside!"]
    ELSE IF GE(uvIndex, 3) /\ LE(uvIndex, 5)
    THEN [message |-> "Moderate", color |-> "yellow",
          protection |-> "SPF is your BFF, cover up and use sunscreen!"]
    ELSE IF GE(uvIndex, 6) /\ LE(uvIndex, 7)
    THEN [message |-> "High", color |-> "orange",
          protection |-> "Sunburns are so last season, protect yourself and reduce your sun-time!"]
    ELSE IF GE(uvIndex, 8) /\ LE(uvIndex, 10)
    THEN [message |-> "Very High", color |-> "red",
          protection |-> "Avoid the Lobster Look, use sunscreen every 2 hours and minimise sun exposure!"]
    ELSE [message |-> "Extreme", color |-> "purple",
          protection |-> "UV off the Charts! You should be off the sun!"]

\* components/WeatherDisplay.js
getUVMessageWD(uvIndex) ==
    IF LE(uvIndex, 2)
    THEN [message |-> "Low", color |-> "green",
          protection |-> "Have fun outside!"]
    ELSE IF GE(uvIndex, 3) /\ LE(uvIndex, 5)
    THEN [message |-> "Moderate", color |-> "yellow",
          protection |-> "SPF is your BFF, cover up and use sunscreen!"]
    ELSE IF GE(uvIndex, 6) /\ LE(uvIndex, 7)
    THEN [message |-> "High", color |-> "orange",
          protection |-> "Sunburns are so last season, protect yourself and reduce your sun-time!"]
    ELSE IF GE(uvIndex, 8) /\ LE(uvIndex, 10)
    THEN [message |-> "Very High", color |-> "red",
          protection |-> "Avoid the Lobster Look, use sunscreen every 2 hours and minimise sun exposure!"]
    ELSE [message |-> "Extreme", color |-> "purple",
          protection |-> "UV off the Charts! You should be off the sun!"]

\* components/WeatherDisplay.js: the text of each icon of allIcons
allIcons ==
    << "Use sunglasses", "Wear sunscreen", "Wear a hat", "Wear protective clothing",
       "Stay in shade", "Reduce time in the sun", "Avoid the sun" >>

\* allIcons.slice(0, n)
slice0(n) == SubSeq(allIcons, 1, n)

\* mutant of renderProtectionIcons: the High branch slices one icon short
renderProtectionIcons_shortSlice(uvIndex) ==
    IF LE(uvIndex, 2) THEN slice0(4)
    ELSE IF LE(uvIndex, 5) THEN slice0(5)
    ELSE IF LE(uvIndex, 7) THEN slice0(5)
    ELSE allIcons

\* components/WeatherDisplay.js: iconsToShow
renderProtectionIcons(uvIndex) ==
    IF LE(uvIndex, 2) THEN slice0(4)
    ELSE IF LE(uvIndex, 5) THEN slice0(5)
    ELSE IF LE(uvIndex, 7) THEN slice0(6)
    ELSE allIcons

\* App.js: the five inline protection-recommendations blocks, each with its own
\* condition and its own literal list of measures
blockLow ==
    << "Use sunglasses", "Wear sunscreen", "Wear a hat", "Wear protective clothing" >>
\* mutant of blockModerate: two entries of the copied markup swapped
blockModerate_swapped ==
    << "Use sunglasses", "Wear a hat", "Wear sunscreen", "Wear protective clothing",
       "Stay in shade" >>
blockModerate ==
    << "Use sunglasses", "Wear sunscreen", "Wear a hat", "Wear protective clothing",
       "Stay in shade" >>
blockHigh ==
    << "Use sunglasses", "Wear sunscreen", "Wear a hat", "Wear protective clothing",
       "Stay in shade", "Reduce time in the sun" >>
blockVeryHigh ==
    << "Use sunglasses", "Wear sunscreen", "Wear a hat", "Wear protective clothing",
       "Stay in shade", "Reduce time in the sun", "Avoid the sun" >>
blockExtreme ==
    << "Use sunglasses", "Wear sunscreen", "Wear a hat", "Wear protective clothing",
       "Stay in shade", "Reduce time in the sun", "Avoid the sun" >>

\* the measure lists App.js renders for a UV index, in document order
protectionBlocks(uvIndex) ==
    (IF LE(uvIndex, 2) THEN <<blockLow>> ELSE <<>>)
    \o (IF GE(uvIndex, 3) /\ LE(uvIndex, 5) THEN <<blockModerate>> ELSE <<>>)
    \o (IF GE(uvIndex, 6) /\ LE(uvIndex, 7) THEN <<blockHigh>> ELSE <<>>)
    \o (IF GE(uvIndex, 8) /\ LE(uvIndex, 10) THEN <<blockVeryHigh>> ELSE <<>>)
    \o (IF GT(uvIndex, 10) THEN <<blockExtreme>> ELSE <<>>)

(***************************************************************************)
(* fetchWeatherData: geocoding, then current weather, then UV index        *)
(***************************************************************************)
noWeather == [present |-> FALSE]
fetchFailed == "Failed to fetch weather data. Please try again."
CallIds == 1..Len(calls)

\* handleLocationSubmit with a non-blank location: fetchWeatherData runs up to
\* its first await
handleLocationSubmit ==
    /\ Len(calls) < MaxCalls
    /\ loading' = TRUE
    /\ error' = ""
    /\ calls' = Append(calls, [stage |-> "geo", weatherOk |-> TRUE, result |-> "pending"])
    /\ UNCHANGED <<weatherData, uvValue>>
    /\ UNCHANGED <<qvars, rvars, svars, lvars>>

\* catch (err) { ... } finally { ... } of call i
catchFinally(i) ==
    /\ error' = fetchFailed
    /\ weatherData' = noWeather
    /\ loading' = FALSE
    /\ calls' = [calls EXCEPT ![i].stage = "done", ![i].result = "failed"]
    /\ uvValue' = undefined

\* the geocoding request of call i answers: rejected (the fetch or json() throws),
\* empty (no element: !geoData.length), or found
geoResponse(i, outcome) ==
    /\ calls[i].stage = "geo"
    /\ IF outcome = "found"
       THEN /\ calls' = [calls EXCEPT ![i].stage = "weather"]
            /\ UNCHANGED <<weatherData, error, loading, uvValue>>
       ELSE catchFinally(i)
    /\ UNCHANGED <<qvars, rvars, svars, lvars>>

\* the weather request of call i answers: rejected, or a JSON body; a body without
\* main / weather (malformed) is not looked at before the UV request is sent
weatherResponse(i, outcome) ==
    /\ calls[i].stage = "weather"
    /\ IF outcome = "rejected"
       THEN catchFinally(i)
       ELSE /\ calls' = [calls EXCEPT ![i].stage = "uv",
                                      ![i].weatherOk = (outcome = "ok")]
            /\ UNCHANGED <<weatherData, error, loading, uvValue>>
    /\ UNCHANGED <<qvars, rvars, svars, lvars>>

\* the UV request of call i answers: rejected, or a body whose value is `value`;
\* building the weatherData object throws when the weather body was malformed
\* (location: name is the place found for the i-th submitted text, written i)
uvResponse(i, outcome, value) ==
    /\ calls[i].stage = "uv"
    /\ IF outcome = "rejected" \/ ~calls[i].weatherOk
       THEN catchFinally(i)
       ELSE /\ weatherData' = [present |-> TRUE, uvIndex |-> MathRound(Number(value)),
                                location |-> i]
            /\ loading' = FALSE
            /\ calls' = [calls EXCEPT ![i].stage = "done", ![i].result = "shown"]
            /\ uvValue' = value
            /\ UNCHANGED error
    /\ UNCHANGED <<qvars, rvars, svars, lvars>>

InitW ==
    /\ weatherData = noWeather
    /\ error = ""
    /\ loading = FALSE
    /\ calls = <<>>
    /\ uvValue = undefined

(***************************************************************************)
(* Reminder: handleReminder, handleDismissPopup and the notification sound *)
(***************************************************************************)
\* the values the time input delivers in this model
Times == {"06:00", "09:30", "12:00", "15:45"}

silent == [state |-> "paused", currentTime |-> 0]

\* onChange={(e) => setSelectedTime(e.target.value)}; the input can be cleared
setSelectedTime(value) ==
    /\ selectedTime' = value
    /\ lastOpR' = "setSelectedTime"
    /\ UNCHANGED <<showPopup, sound, notifications>>
    /\ UNCHANGED <<qvars, wvars, svars, lvars>>

\* mutant of remindEnabled: disabled={!selectedTime}
remindEnabled_ignoresPopup == selectedTime # ""

\* the Remind me button: disabled={!selectedTime || showPopup}
remindEnabled == selectedTime # "" /\ ~showPopup

handleReminder ==
    /\ remindEnabled
    /\ showPopup' = TRUE
    /\ selectedTime' = ""
    /\ sound' = [sound EXCEPT !.state = "starting"]
    /\ notifications' = notifications + 1
    /\ lastOpR' = "handleReminder"
    /\ UNCHANGED <<qvars, wvars, svars, lvars>>

\* the promise of notificationSound.play() resolves: playback has started
playResolved ==
    /\ sound.state = "starting"
    /\ sound' = [sound EXCEPT !.state = "playing"]
    /\ lastOpR' = "playResolved"
    /\ UNCHANGED <<selectedTime, showPopup, notifications>>
    /\ UNCHANGED <<qvars, wvars, svars, lvars>>

\* the promise of notificationSound.play() rejects: .catch logs, nothing plays
playRejected ==
    /\ sound.state = "starting"
    /\ sound' = [sound EXCEPT !.state = "paused"]
    /\ lastOpR' = "playRejected"
    /\ UNCHANGED <<selectedTime, showPopup, notifications>>
    /\ UNCHANGED <<qvars, wvars, svars, lvars>>

\* mutant of timeupdate: the popup is hidden when the sound has played through once
timeupdate_autoDismiss ==
    /\ sound.state = "playing"
    /\ sound' = [sound EXCEPT !.currentTime =
                     IF sound.currentTime = MaxSoundTime THEN 0 ELSE sound.currentTime + 1]
    /\ showPopup' = (IF sound.currentTime = MaxSoundTime THEN FALSE ELSE showPopup)
    /\ lastOpR' = "timeupdate"
    /\ UNCHANGED <<selectedTime, notifications>>
    /\ UNCHANGED <<qvars, wvars, svars, lvars>>

\* playback advances; notificationSound.loop = true wraps it to the beginning
timeupdate ==
    /\ sound.state = "playing"
    /\ sound' = [sound EXCEPT !.currentTime =
                     IF sound.currentTime = MaxSoundTime THEN 0 ELSE sound.currentTime + 1]
    /\ lastOpR' = "timeupdate"
    /\ UNCHANGED <<selectedTime, showPopup, notifications>>
    /\ UNCHANGED <<qvars, wvars, svars, lvars>>

\* mutant of handleDismissPopup: the popup is hidden and the sound left alone
handleDismissPopup_keepsSound ==
    /\ showPopup
    /\ showPopup' = FALSE
    /\ notifications' = 0
    /\ lastOpR' = "handleDismissPopup"
    /\ UNCHANGED <<selectedTime, sound>>
    /\ UNCHANGED <<qvars, wvars, svars, lvars>>

\* the popup, rendered only while showPopup, onClick={handleDismissPopup}
handleDismissPopup ==
    /\ showPopup
    /\ showPopup' = FALSE
    /\ sound' = [state |-> "paused", currentTime |-> 0]
    /\ notifications' = 0
    /\ lastOpR' = "handleDismissPopup"
    /\ UNCHANGED selectedTime
    /\ UNCHANGED <<qvars, wvars, svars, lvars>>

InitR ==
    /\ selectedTime = ""
    /\ showPopup = FALSE
    /\ sound = silent
    /\ notifications = 0
    /\ lastOpR = "mount"

(***************************************************************************)
(* SearchLocation: fetchWeatherData, fetchUVIndex and the UV band          *)
(***************************************************************************)
slNull == [kind |-> "null", t |-> 0]

\* x < n for an integer literal n; false for NaN
LT(x, n) == ~x.nan /\ x.t < n * 10

weatherError == "Error fetching weather data."
uvError == "Failed to fetch UV index. Please try again."

\* the band texts rendered under "UV Index:", in document order
uvBand(uvIndex) ==
    LET x == Number(uvIndex) IN
    (IF LT(x, 3) THEN <<"Low UV - Minimal protection needed.">> ELSE <<>>)
    \o (IF GE(x, 3) /\ LT(x, 6)
        THEN <<"Moderate UV - Wear sunglasses and sunscreen.">> ELSE <<>>)
    \o (IF GE(x, 6) /\ LT(x, 8) THEN <<"High UV - Use SPF 30+, seek shade.">> ELSE <<>>)
    \o (IF GE(x, 8) /\ LT(x, 11)
        THEN <<"Very High UV - Cover up, wear a hat.">> ELSE <<>>)
    \o (IF GE(x, 11) THEN <<"Extreme UV - Avoid sun, wear full protection.">> ELSE <<>>)

\* the UV box: {uvIndex !== null && ( ... )}
uvBoxShown == slUvIndex # slNull

SearchIds == 1..Len(slCalls)

\* searchByCity with a non-blank location (or the geolocation callback on mount):
\* fetchWeatherData(url) runs up to its await
searchByCity ==
    /\ Len(slCalls) < MaxSearches
    /\ slCalls' = Append(slCalls, [stage |-> "weather", result |-> "pending"])
    /\ UNCHANGED <<slUvIndex, slWeatherData, slError>>
    /\ UNCHANGED <<qvars, wvars, rvars, lvars>>

\* axios.get(url) of search i answers: rejected, a body without coord (nocoord),
\* or a body with coord, for which fetchUVIndex is started
slWeatherResponse(i, outcome) ==
    /\ slCalls[i].stage = "weather"
    /\ IF outcome = "rejected"
       THEN /\ slError' = weatherError
            /\ slCalls' = [slCalls EXCEPT ![i].stage = "done", ![i].result = "failed"]
            /\ UNCHANGED <<slUvIndex, slWeatherData>>
       ELSE IF outcome = "nocoord"
       THEN /\ slWeatherData' = [present |-> TRUE]
            /\ slError' = weatherError
            /\ slCalls' = [slCalls EXCEPT ![i].stage = "done", ![i].result = "failed"]
            /\ UNCHANGED slUvIndex
       ELSE /\ slWeatherData' = [present |-> TRUE]
            /\ slCalls' = [slCalls EXCEPT ![i].stage = "uv"]
            /\ UNCHANGED <<slUvIndex, slError>>
    /\ UNCHANGED <<qvars, wvars, rvars, lvars>>

\* the UV request of search i answers: rejected, or a body whose value is `value`
slUvResponse(i, outcome, value) ==
    /\ slCalls[i].stage = "uv"
    /\ IF outcome = "rejected"
       THEN /\ slError' = uvError
            /\ UNCHANGED slUvIndex
       ELSE /\ slUvIndex' = value
            /\ UNCHANGED slError
    /\ slCalls' = [slCalls EXCEPT ![i].stage = "done",
                                  ![i].result = IF outcome = "rejected" THEN "failed" ELSE "ok"]
    /\ UNCHANGED slWeatherData
    /\ UNCHANGED <<qvars, wvars, rvars, lvars>>

InitS ==
    /\ slUvIndex = slNull
    /\ slWeatherData = noWeather
    /\ slError = ""
    /\ slCalls = <<>>

(***************************************************************************)
(* WeatherDisplay: the location input and its suggestions                  *)
(***************************************************************************)
\* the texts typed into the location input, as sequences of characters
Texts == {<<>>, <<" ">>, <<"s">>, <<"s", "y">>}

RECURSIVE trimStart(_)
trimStart(text) ==
    IF text # <<>> /\ Head(text) = " " THEN trimStart(Tail(text)) ELSE text

RECURSIVE trimEnd(_)
trimEnd(text) ==
    IF text # <<>> /\ text[Len(text)] = " "
    THEN trimEnd(SubSeq(text, 1, Len(text) - 1))
    ELSE text

\* String.prototype.trim
trim(text) == trimEnd(trimStart(text))

\* the body of a geocoding response with n places for the text asked
geoData(searchText, n) == [k \in 1..n |-> [query |-> searchText, place |-> k]]

\* `${suggestion.name}, ${suggestion.country}`: the k-th place found for the text,
\* a text that starts with nothing typed in this model
placeText(suggestion) == <<"#">> \o suggestion.query

\* the dropdown: {showSuggestions && suggestions.length > 0 && ( ... )}
dropdownShown == showSuggestions /\ Len(suggestions) > 0

SugIds == 1..Len(sugCalls)

\* onChange of the input, fired when its text changes: setLocation(value);
\* fetchLocationSuggestions(value) up to its await, or its early return for a
\* blank text
handleLocationChange(value) ==
    /\ value # location
    /\ location' = value
    /\ IF trim(value) = <<>>
       THEN /\ suggestions' = <<>>
            /\ UNCHANGED sugCalls
       ELSE /\ Len(sugCalls) < MaxRequests
            /\ sugCalls' = Append(sugCalls, [searchText |-> value, stage |-> "sent"])
            /\ UNCHANGED suggestions
    /\ UNCHANGED showSuggestions
    /\ UNCHANGED <<qvars, wvars, rvars, svars>>

\* the request of fetchLocationSuggestions call i answers: rejected (catch), or a
\* body with n places
suggestionsResponse(i, outcome, n) ==
    /\ sugCalls[i].stage = "sent"
    /\ IF outcome = "rejected"
       THEN /\ suggestions' = <<>>
            /\ UNCHANGED showSuggestions
       ELSE /\ suggestions' = geoData(sugCalls[i].searchText, n)
            /\ showSuggestions' = TRUE
    /\ sugCalls' = [sugCalls EXCEPT ![i].stage = "done"]
    /\ UNCHANGED location
    /\ UNCHANGED <<qvars, wvars, rvars, svars>>

\* mousedown outside the dropdown; suggestionsRef.current is null while the
\* dropdown is not rendered
handleClickOutside ==
    /\ dropdownShown
    /\ showSuggestions' = FALSE
    /\ UNCHANGED <<location, suggestions, sugCalls>>
    /\ UNCHANGED <<qvars, wvars, rvars, svars>>

\* a row of the dropdown is clicked: setLocation, setShowSuggestions(false) and
\* fetchWeatherData up to its first await
handleSuggestionClick(k) ==
    /\ dropdownShown
    /\ Len(calls) < MaxCalls
    /\ location' = placeText(suggestions[k])
    /\ showSuggestions' = FALSE
    /\ loading' = TRUE
    /\ error' = ""
    /\ calls' = Append(calls, [stage |-> "geo", weatherOk |-> TRUE, result |-> "pending"])
    /\ UNCHANGED <<suggestions, sugCalls>>
    /\ UNCHANGED <<weatherData, uvValue>>
    /\ UNCHANGED <<qvars, rvars, svars>>

InitL ==
    /\ location = <<>>
    /\ suggestions = <<>>
    /\ showSuggestions = FALSE
    /\ sugCalls = <<>>

(***************************************************************************)
(* Specifications                                                          *)
(***************************************************************************)
Init == InitQ /\ InitW /\ InitR /\ InitS /\ InitL

\* the questionnaire, driven through its buttons
NextQ ==
    \/ \E answer \in Clicked(currentQuestion) : handleAnswer(answer)
    \/ handleNextQuestion
    \/ handlePrevQuestion
    \/ showResult
    \/ handleReset

SpecQ == Init /\ [][NextQ]_vars

\* the questionnaire with handleAnswer called with any number
NextD ==
    \/ \E answer \in DirectArgs(currentQuestion) : handleAnswer(answer)
    \/ handleNextQuestion
    \/ handlePrevQuestion
    \/ showResult
    \/ handleReset

SpecD == Init /\ [][NextD]_vars

\* the weather display
NextW ==
    \/ handleLocationSubmit
    \/ \E i \in CallIds : \E outcome \in {"rejected", "empty", "found"} :
           geoResponse(i, outcome)
    \/ \E i \in CallIds : \E outcome \in {"rejected", "malformed", "ok"} :
           weatherResponse(i, outcome)
    \/ \E i \in CallIds : \E outcome \in {"rejected", "ok"} : \E value \in UvValues :
           uvResponse(i, outcome, value)

SpecW == Init /\ [][NextW]_vars

\* the reminder
NextR ==
    \/ \E value \in Times \cup {""} : setSelectedTime(value)
    \/ handleReminder
    \/ playResolved
    \/ playRejected
    \/ timeupdate
    \/ handleDismissPopup

SpecR == Init /\ [][NextR]_vars

\* the SearchLocation variant
NextS ==
    \/ searchByCity
    \/ \E i \in SearchIds : \E outcome \in {"rejected", "nocoord", "ok"} :
           slWeatherResponse(i, outcome)
    \/ \E i \in SearchIds : \E outcome \in {"rejected", "ok"} : \E value \in UvValues :
           slUvResponse(i, outcome, value)

SpecS == Init /\ [][NextS]_vars

\* the location input of WeatherDisplay and its suggestions
NextL ==
    \/ \E value \in Texts : handleLocationChange(value)
    \/ \E i \in SugIds : \E outcome \in {"rejected", "ok"} : \E n \in 0..MaxSuggestions :
           suggestionsResponse(i, outcome, n)
    \/ handleClickOutside
    \/ \E k \in 1..Len(suggestions) : handleSuggestionClick(k)

SpecL == Init /\ [][NextL]_vars

Next == NextQ \/ NextW \/ NextR \/ NextS \/ NextL
Spec == Init /\ [][Next]_vars

(***************************************************************************)
(* Properties                                                              *)
(***************************************************************************)
\* the weather card is rendered: {weatherData && ( ... )}
cardShown == weatherData.present
\* x is an integer
IsWhole(x) == ~x.nan /\ x.t % 10 = 0
\* the integer an integer-valued x stands for
Units(x) == x.t \div 10
\* the integers Math.round can produce from the provider values of the model
WholeRange == ((5 - MinUvTenths) \div 10)..((MaxUvTenths + 5) \div 10)
TierNames == <<"Low", "Moderate", "High", "Very High", "Extreme">>
TierRank(name) == CHOOSE k \in 1..5 : TierNames[k] = name
\* s is a prefix of t
IsPrefix(s, t) == Len(s) <= Len(t) /\ SubSeq(t, 1, Len(s)) = s

\* the tier table of the specification, over integers
TierTable(n) ==
    IF n <= 2 THEN "Low"
    ELSE IF n \in 3..5 THEN "Moderate"
    ELSE IF n \in 6..7 THEN "High"
    ELSE IF n \in 8..10 THEN "Very High"
    ELSE "Extreme"

\* C1: for every integer UV index the displayed tier is Low (<= 2), Moderate
\* (3..5), High (6..7), Very High (8..10) or Extreme (> 10), the listed boundary
\* values resolve as listed, and the App.js and WeatherDisplay.js copies of
\* getUVMessage agree.
C1_TierOfIntegerUV ==
    /\ (cardShown /\ IsWhole(weatherData.uvIndex)) =>
          /\ getUVMessage(weatherData.uvIndex).message
                = TierTable(Units(weatherData.uvIndex))
          /\ getUVMessageWD(weatherData.uvIndex).message
                = getUVMessage(weatherData.uvIndex).message
    /\ \A b \in { <<2, "Low">>, <<3, "Moderate">>, <<5, "Moderate">>, <<6, "High">>,
                  <<7, "High">>, <<8, "Very High">>, <<10, "Very High">>,
                  <<11, "Extreme">> } :
          /\ getUVMessage(Whole(b[1])).message = b[2]
          /\ getUVMessageWD(Whole(b[1])).message = b[2]

C1_Witness ==
    /\ cardShown
    /\ weatherData.uvIndex = Whole(8)
    /\ getUVMessage(weatherData.uvIndex).message = "Very High"

\* the measure counts of the specification, over integers
CountTable(n) ==
    IF n <= 2 THEN 4 ELSE IF n <= 5 THEN 5 ELSE IF n <= 7 THEN 6 ELSE 7

\* C3: for every integer UV index exactly 4 / 5 / 6 / 7 / 7 measures are displayed
\* for Low / Moderate / High / Very High / Extreme, by both variants, and the count
\* never decreases when the UV index grows.
C3_MeasureCount ==
    (cardShown /\ IsWhole(weatherData.uvIndex)) =>
        LET u == weatherData.uvIndex IN
        /\ Len(renderProtectionIcons(u)) = CountTable(Units(u))
        /\ Len(protectionBlocks(u)) = 1
        /\ Len(protectionBlocks(u)[1]) = CountTable(Units(u))
        /\ \A m \in WholeRange :
              m >= Units(u) =>
                 /\ Len(renderProtectionIcons(Whole(m))) >= Len(renderProtectionIcons(u))
                 /\ Len(protectionBlocks(Whole(m))) = 1
                 /\ Len(protectionBlocks(Whole(m))[1]) >= Len(protectionBlocks(u)[1])

C3_Witness ==
    /\ cardShown
    /\ weatherData.uvIndex = Whole(6)
    /\ Len(renderProtectionIcons(weatherData.uvIndex)) = 6
    /\ Len(protectionBlocks(weatherData.uvIndex)[1]) = 6

\* the fixed order of the specification
FixedOrder ==
    << "Use sunglasses", "Wear sunscreen", "Wear a hat", "Wear protective clothing",
       "Stay in shade", "Reduce time in the sun", "Avoid the sun" >>

\* the displayed list and every lower tier's list, for the integer UV index shown:
\* Appended(lower, higher, rankLower, rankHigher) says how the two lists relate
AppendChain(Appended(_, _, _, _)) ==
    (cardShown /\ IsWhole(weatherData.uvIndex)) =>
        LET u == weatherData.uvIndex
            rank(x) == TierRank(getUVMessage(x).message)
        IN
        /\ IsPrefix(renderProtectionIcons(u), FixedOrder)
        /\ Len(protectionBlocks(u)) = 1
        /\ IsPrefix(protectionBlocks(u)[1], FixedOrder)
        /\ \A m \in WholeRange :
              rank(Whole(m)) < rank(u) =>
                 /\ Appended(renderProtectionIcons(Whole(m)), renderProtectionIcons(u),
                             rank(Whole(m)), rank(u))
                 /\ Appended(protectionBlocks(Whole(m))[1], protectionBlocks(u)[1],
                             rank(Whole(m)), rank(u))

StrictAppend(lower, higher, rl, rh) ==
    IsPrefix(lower, higher) /\ Len(lower) < Len(higher)

\* strict up to Very High; Extreme (rank 5) shows the same list as Very High (rank 4)
AppendExceptTop(lower, higher, rl, rh) ==
    /\ IsPrefix(lower, higher)
    /\ IF rl = 4 /\ rh = 5 THEN lower = higher ELSE Len(lower) < Len(higher)

\* C4 as stated: every tier's list is a prefix of the fixed order and each higher
\* tier's list is a strict superset-by-append of every lower tier's list.
C4_StrictAppendEveryTier == AppendChain(StrictAppend)

\* C4: every tier's list is a prefix of the fixed order and each higher tier's list
\* extends every lower tier's list by appending only; the extension is strict except
\* that Extreme shows exactly the list of Very High.
C4_AppendChain == AppendChain(AppendExceptTop)

C4_Witness ==
    /\ cardShown
    /\ weatherData.uvIndex = Whole(11)
    /\ renderProtectionIcons(weatherData.uvIndex) = renderProtectionIcons(Whole(8))
    /\ protectionBlocks(weatherData.uvIndex) = <<blockExtreme>>

\* C9 as stated: a NaN or negative UV index is never mapped to a tier.
C9_MalformedUVRejected ==
    (cardShown /\ (weatherData.uvIndex.nan \/ weatherData.uvIndex.t < 0)) =>
        /\ \A k \in 1..5 : getUVMessage(weatherData.uvIndex).message # TierNames[k]
        /\ \A k \in 1..5 : getUVMessageWD(weatherData.uvIndex).message # TierNames[k]

\* the sum of the ten answers, written out
SumOfTen(a) ==
    a[1][1] + a[2][1] + a[3][1] + a[4][1] + a[5][1]
    + a[6][1] + a[7][1] + a[8][1] + a[9][1] + a[10][1]

\* the skin-type table of the specification
TypeTable(sum) ==
    IF sum \in 0..6 THEN "type1"
    ELSE IF sum \in 7..13 THEN "type2"
    ELSE IF sum \in 14..20 THEN "type3"
    ELSE IF sum \in 21..27 THEN "type4"
    ELSE IF sum \in 28..34 THEN "type5"
    ELSE IF sum \in 35..40 THEN "type6"
    ELSE "none"

InRange(a) == \A i \in Slots : a[i] # null => a[i][1] \in 0..4
AllOf(v) == [i \in Slots |-> Some(v)]
Alternating == [i \in Slots |-> IF i % 2 = 1 THEN Some(2) ELSE Some(1)]

\* C2: whenever handleAnswer leaves all ten slots set (values 0..4), totalScore is
\* the sum of the ten answers and determinedSkinType is the type of that sum
\* (0-6 type1, 7-13 type2, 14-20 type3, 21-27 type4, 28-34 type5, 35-40 type6);
\* all 0s give 0 and type1, all 4s give 40 and type6, 2,1,2,1,... gives 15 and type3.
C2_ScoreAndType ==
    /\ (lastOp = "handleAnswer" /\ every(answers) /\ InRange(answers)) =>
          /\ totalScore = SumOfTen(answers)
          /\ determinedSkinType = TypeTable(SumOfTen(answers))
    /\ reduce(AllOf(0)) = 0 /\ skinTypeFor(reduce(AllOf(0))) = "type1"
    /\ reduce(AllOf(4)) = 40 /\ skinTypeFor(reduce(AllOf(4))) = "type6"
    /\ reduce(Alternating) = 15 /\ skinTypeFor(reduce(Alternating)) = "type3"

C2_Witness ==
    /\ lastOp = "handleAnswer"
    /\ every(answers)
    /\ totalScore = 7
    /\ determinedSkinType = "type2"

\* C5: in every state in which some answer slot is still null, no skin type is
\* determined, no score is computed and no result is shown.
C5_NoPartialClassification ==
    ~every(answers) =>
        /\ determinedSkinType = ""
        /\ totalScore = 0
        /\ ~resultShown

C5_Witness ==
    /\ lastOp = "handleAnswer"
    /\ Cardinality({i \in Slots : answers[i] # null}) = NumQuestions - 1
    /\ determinedSkinType = ""

\* C6: allQuestionsAnswered becomes true only by the Show Result action, which
\* acts only when all ten slots are set; answering a question, the last unanswered
\* one included, never changes allQuestionsAnswered.
C6_ResultOnlyByShowResult ==
    [][ /\ (allQuestionsAnswered' /\ ~allQuestionsAnswered) =>
              (lastOp' = "showResult" /\ every(answers))
        /\ lastOp' = "showResult" => (every(answers) /\ allQuestionsAnswered')
        /\ lastOp' = "handleAnswer" => (allQuestionsAnswered' = allQuestionsAnswered)
      ]_vars

C6_Witness ==
    /\ lastOp = "showResult"
    /\ allQuestionsAnswered
    /\ every(answers)

\* C7: after handleReset, whatever the state before, all ten answers are null,
\* currentQuestion is 0, allQuestionsAnswered is false, determinedSkinType is
\* empty and totalScore is 0.
C7_ResetRestoresInitial ==
    lastOp = "handleReset" =>
        /\ answers = emptyAnswers
        /\ currentQuestion = 0
        /\ allQuestionsAnswered = FALSE
        /\ determinedSkinType = ""
        /\ totalScore = 0

C7_Witness ==
    /\ lastOp = "handleReset"
    /\ answers = emptyAnswers
    /\ currentQuestion = 0

\* C8: currentQuestion stays in 0..9; handleNextQuestion at 9 and
\* handlePrevQuestion at 0 change nothing, and otherwise they move the pointer by
\* exactly one and change nothing else.
C8_PointerClamped ==
    /\ [](currentQuestion \in 0..9)
    /\ [][ /\ lastOp' = "handleNextQuestion" =>
                 /\ currentQuestion' =
                        (IF currentQuestion = 9 THEN 9 ELSE currentQuestion + 1)
                 /\ UNCHANGED <<answers, allQuestionsAnswered, determinedSkinType,
                                totalScore>>
           /\ lastOp' = "handlePrevQuestion" =>
                 /\ currentQuestion' =
                        (IF currentQuestion = 0 THEN 0 ELSE currentQuestion - 1)
                 /\ UNCHANGED <<answers, allQuestionsAnswered, determinedSkinType,
                                totalScore>>
         ]_vars

C8_Witness ==
    /\ currentQuestion = 9
    /\ lastOp = "handleNextQuestion"

MeasuresTable(n) == SubSeq(FixedOrder, 1, CountTable(n))

\* C11 as stated: the stored uvIndex is the provider's value rounded to the nearest
\* integer and is always an integer; 6.4 is stored as 6 and shown as High with 6
\* measures.
C11_StoredIsRoundedInteger ==
    cardShown =>
        /\ IsWhole(weatherData.uvIndex)
        /\ uvValue.kind = "number"
        /\ weatherData.uvIndex.t - uvValue.t \in -4..5
        /\ uvValue = jsonNumber(64) =>
              /\ weatherData.uvIndex = Whole(6)
              /\ getUVMessage(weatherData.uvIndex).message = "High"
              /\ Len(renderProtectionIcons(weatherData.uvIndex)) = 6
              /\ protectionBlocks(weatherData.uvIndex) = <<blockHigh>>

\* C12 as stated: a request is sent only after the previous one has answered; once
\* a step has failed or come back empty no further request is sent (no UV request
\* after a failed weather step), and the failed call leaves the error set and
\* weatherData null.
C12_FailFastPipeline ==
    /\ \A i \in CallIds :
          /\ calls[i].stage = "uv" => calls[i].weatherOk
          /\ calls[i].result = "failed" => calls[i].stage = "done"
    /\ (Len(calls) = 1 /\ calls[1].result = "failed") =>
          (error = fetchFailed /\ ~cardShown)

\* C13 as stated: a UV response whose value is missing or out of range (negative)
\* ends as a fetch error: nothing is displayed for it.
C13_BadUvValueIsFetchError ==
    cardShown => (uvValue.kind = "number" /\ uvValue.t >= 0)

\* C19 as stated: for every uvIndex value that fetchWeatherData can store, App.js
\* renders exactly one measure list, it is the list renderProtectionIcons renders,
\* and it is the list of the tier getUVMessage reports.
C19_SameMeasuresEverywhere ==
    cardShown =>
        LET u == weatherData.uvIndex IN
        /\ Len(protectionBlocks(u)) = 1
        /\ protectionBlocks(u)[1] = renderProtectionIcons(u)
        /\ \E n \in WholeRange :
              /\ TierTable(n) = getUVMessage(u).message
              /\ MeasuresTable(n) = renderProtectionIcons(u)

\* C14: showPopup becomes true only in a handleReminder step and, once true, becomes
\* false only in a handleDismissPopup step; no timer or audio event changes it.
C14_PopupOnlyByHandlers ==
    [][ /\ (~showPopup /\ showPopup') => lastOpR' = "handleReminder"
        /\ (showPopup /\ ~showPopup') => lastOpR' = "handleDismissPopup"
      ]_vars

\* the sound has played through and wrapped, and the popup is still there
C14_Witness ==
    /\ showPopup
    /\ lastOpR = "timeupdate"
    /\ sound.currentTime = 0

\* the advice bands of the specification
AdviceTable(skinType) ==
    CASE skinType \in {"type1", "type2"} -> "Easy burner! Reapply every 1-2 hours."
      [] skinType \in {"type3", "type4"} -> "Stay sun-safe! Reapply every 2-3 hours."
      [] skinType \in {"type5", "type6"} ->
             "Better protected, but still reapply every 2-3 hours!"
      [] OTHER -> "none"

\* C15: whenever the result view is shown, the one advice shown is the advice of the
\* determined skin type: 1-2 hours for type1/type2, 2-3 hours for type3/type4,
\* better protected but still 2-3 hours for type5/type6.
C15_AdviceOfDeterminedType ==
    resultShown =>
        /\ determinedSkinType \in {"type1", "type2", "type3", "type4", "type5", "type6"}
        /\ reapplyAdvice(determinedSkinType) = AdviceTable(determinedSkinType)

C15_Witness ==
    /\ resultShown
    /\ determinedSkinType = "type5"
    /\ reapplyAdvice(determinedSkinType)
          = "Better protected, but still reapply every 2-3 hours!"

\* C16: the answers vector always has exactly 10 slots, each null or an integer in
\* 0..4, and totalScore is an integer in 0..40.
C16_AnswersWellFormed ==
    /\ DOMAIN answers = 1..10
    /\ \A i \in 1..10 : answers[i] = null \/ (Len(answers[i]) = 1 /\ answers[i][1] \in 0..4)
    /\ totalScore \in 0..40

C16_Witness ==
    /\ every(answers)
    /\ totalScore = 40
    /\ \A i \in Slots : answers[i] = Some(4)

\* C17: the score and the skin type held in the state are the scoring function of
\* the current answers alone, whatever was answered, revised or shown before and in
\* whatever order.
C17_NoHiddenState ==
    every(answers) =>
        /\ totalScore = reduce(answers)
        /\ determinedSkinType = skinTypeFor(reduce(answers))

\* an answer revised after a result was shown
C17_Witness ==
    /\ resultShown
    /\ lastOp = "handleAnswer"
    /\ totalScore = 15
    /\ determinedSkinType = "type3"

\* the band text of SearchLocation for each tier name
BandText ==
    [ tier \in {"Low", "Moderate", "High", "Very High", "Extreme"} |->
        CASE tier = "Low" -> "Low UV - Minimal protection needed."
          [] tier = "Moderate" -> "Moderate UV - Wear sunglasses and sunscreen."
          [] tier = "High" -> "High UV - Use SPF 30+, seek shade."
          [] tier = "Very High" -> "Very High UV - Cover up, wear a hat."
          [] tier = "Extreme" -> "Extreme UV - Avoid sun, wear full protection." ]

\* C18 as stated: for every raw UV value the band SearchLocation displays is the tier
\* App / WeatherDisplay display for the same raw value, which they round first.
C18_BandEqualsRoundedTier ==
    (uvBoxShown /\ slUvIndex.kind = "number") =>
        uvBand(slUvIndex)
            = << BandText[getUVMessage(MathRound(Number(slUvIndex))).message] >>

\* C20: handleReminder acts only with a time selected and no popup showing, it
\* leaves the popup showing and selectedTime empty, and at most one notification
\* is ever active.
C20_SinglePopup ==
    /\ [](notifications <= 1)
    /\ [][ lastOpR' = "handleReminder" =>
              /\ selectedTime # ""
              /\ ~showPopup
              /\ showPopup'
              /\ selectedTime' = ""
         ]_vars

\* a new time is selected while the popup is showing
C20_Witness ==
    /\ showPopup
    /\ notifications = 1
    /\ selectedTime # ""

\* C21: the sound is starting or playing only while showPopup is true, without a
\* popup it is paused at position 0, and every handleDismissPopup step leaves
\* showPopup false and the sound paused at position 0.
C21_SoundOnlyWithPopup ==
    /\ [](sound.state \in {"starting", "playing"} => showPopup)
    /\ [](~showPopup => sound = silent)
    /\ [][ lastOpR' = "handleDismissPopup" => (~showPopup' /\ sound' = silent) ]_vars

\* a popup dismissed with the next time already selected: the sound is silent
C21_Witness ==
    /\ lastOpR = "handleDismissPopup"
    /\ ~showPopup
    /\ sound = silent
    /\ selectedTime # ""

\* C22: whenever the result view is visible all ten answers are non-null,
\* totalScore is the sum of the current answers and determinedSkinType is the type
\* of that sum; and determinedSkinType is non-empty exactly when all ten answers
\* are non-null.
C22_ResultMatchesAnswers ==
    /\ resultShown =>
          /\ every(answers)
          /\ totalScore = SumOfTen(answers)
          /\ determinedSkinType = TypeTable(SumOfTen(answers))
    /\ (determinedSkinType # "") <=> every(answers)

\* the result is showing and the answers have just been revised down to all zero
C22_Witness ==
    /\ resultShown
    /\ lastOp = "handleAnswer"
    /\ totalScore = 0
    /\ determinedSkinType = "type1"

\* C23: a handleAnswer step changes no answer slot but the one at currentQuestion,
\* which is non-null afterwards, and leaves currentQuestion and
\* allQuestionsAnswered unchanged; a handleNextQuestion or handlePrevQuestion step
\* leaves answers, totalScore, determinedSkinType and allQuestionsAnswered
\* unchanged.
C23_HandlerFrames ==
    [][ /\ lastOp' = "handleAnswer" =>
              /\ \A i \in Slots : i # currentQuestion + 1 => answers'[i] = answers[i]
              /\ answers'[currentQuestion + 1] # null
              /\ currentQuestion' = currentQuestion
              /\ allQuestionsAnswered' = allQuestionsAnswered
        /\ lastOp' \in {"handleNextQuestion", "handlePrevQuestion"} =>
              /\ answers' = answers
              /\ totalScore' = totalScore
              /\ determinedSkinType' = determinedSkinType
              /\ allQuestionsAnswered' = allQuestionsAnswered
      ]_vars

\* an earlier slot answered again with every slot filled and the result showing
C23_Witness ==
    /\ lastOp = "handleAnswer"
    /\ currentQuestion = 3
    /\ every(answers)
    /\ answers[4] = Some(4)
    /\ resultShown

\* a fetchWeatherData call that has not reached its finally block
inFlight(i) == calls[i].stage # "done"

\* C24 as stated: once every request of overlapping searches has completed, the
\* displayed weatherData and error are those of the most recently submitted
\* location.
C24_LatestSearchWins ==
    (Len(calls) >= 1 /\ \A i \in CallIds : ~inFlight(i)) =>
        LET last == Len(calls) IN
        /\ calls[last].result = "shown" =>
              (cardShown /\ weatherData.location = last /\ error = "")
        /\ calls[last].result = "failed" =>
              (~cardShown /\ error = fetchFailed)

\* C25 as stated: loading is true exactly in the states in which at least one
\* fetchWeatherData call is still in flight.
C25_LoadingWhileInFlight ==
    loading <=> (\E i \in CallIds : inFlight(i))

\* C26 as stated: a non-empty error message and a non-null weatherData are never
\* present in the same state.
C26_ErrorExcludesWeather ==
    ~(error # "" /\ cardShown)

\* C27 as stated: once the searches have completed, a latest search that succeeded
\* (weather and UV index both fetched) leaves no error message displayed, and a
\* latest search that failed leaves no UV index displayed.
C27_LatestSearchDescribed ==
    (Len(slCalls) >= 1 /\ \A i \in SearchIds : slCalls[i].stage = "done") =>
        LET last == Len(slCalls) IN
        /\ slCalls[last].result = "ok" => slError = ""
        /\ slCalls[last].result = "failed" => ~uvBoxShown

\* C28 as stated: whenever the text of the location input is empty or whitespace
\* the suggestion list is empty and no dropdown is shown; and once every
\* suggestion request has answered, the suggestions held are those of the latest
\* request, never those of a request for an earlier text.
C28_SuggestionsOfCurrentText ==
    /\ trim(location) = <<>> => (suggestions = <<>> /\ ~dropdownShown)
    /\ (Len(sugCalls) >= 1 /\ \A i \in SugIds : sugCalls[i].stage = "done") =>
          \A k \in 1..Len(suggestions) :
              suggestions[k].query = sugCalls[Len(sugCalls)].searchText

====
